---- MODULE Spec2Model ----
(***************************************************************************)
(* PDF comparison tool (src/main.py): PDFComparer.compare_pdfs,            *)
(* compare_metadata, get_comparison_result and the text pipeline they      *)
(* drive (whitespace normalisation, str.split, difflib.Differ.compare).    *)
(*                                                                         *)
(* Text is a sequence of one-character strings.  Python indices are kept   *)
(* 0-based and half-open, as in the source; At and Slice translate them.   *)
(***************************************************************************)
EXTENDS Integers, Sequences, FiniteSets, TLC

\* ------------------------------------------------------------------ bounds
\* number of lines of LinePool that line sequences are drawn from
NumLines == 3
\* longest line sequence handed to the line diff
MaxLines == 3
\* number of raw page texts of RawPool that documents are built from
NumTexts == 3
\* most pages in a document
MaxPages == 2
\* number of metadata keys of KeyPool
NumKeys == 2
\* number of successful comparisons a behaviour of Spec makes
MaxComparisons == 2
\* number of compare requests in flight at the same time
NumRequests == 2

\* --------------------------------------------------------------- sequences
At(s, i) == s[i + 1]
Slice(s, lo, hi) == SubSeq(s, lo + 1, hi)

RECURSIVE SumSeq(_)
SumSeq(s) == IF s = <<>> THEN 0 ELSE Head(s) + SumSeq(Tail(s))

RECURSIVE Repeat(_, _)
Repeat(c, n) == IF n <= 0 THEN <<>> ELSE <<c>> \o Repeat(c, n - 1)

PyMin(x, y) == IF x < y THEN x ELSE y
PyMax(x, y) == IF x > y THEN x ELSE y

\* str.isspace for the characters of the model's alphabet
IsSpace(c) == c \in {" ", "\n", "\t"}

\* ------------------------------------------------- difflib.SequenceMatcher
\* Differ builds its matchers with isjunk = None, so no element is junk.
\* The autojunk purge of popular elements needs len(b) >= 200 and does not
\* act on sequences of the sizes explored here.
\* j2len[j]: length of the run of equal elements ending at a[i], b[j]
\* and lying inside a[alo:], b[blo:]
RECURSIVE j2len(_, _, _, _, _, _)
j2len(a, b, i, j, alo, blo) ==
    IF i < alo \/ j < blo THEN 0
    ELSE IF At(a, i) # At(b, j) THEN 0
    ELSE j2len(a, b, i - 1, j - 1, alo, blo) + 1

\* the double loop of find_longest_match over i in range(alo, ahi) and the
\* indices j of b2j[a[i]] with blo <= j < bhi, flattened to one counter n;
\* best is (besti, bestj, bestsize)
RECURSIVE flm_scan(_, _, _, _, _, _, _, _)
flm_scan(a, b, alo, ahi, blo, bhi, n, best) ==
    IF n >= (ahi - alo) * (bhi - blo) THEN best
    ELSE LET i == alo + (n \div (bhi - blo))
             j == blo + (n % (bhi - blo))
             k == j2len(a, b, i, j, alo, blo)
         IN IF At(a, i) = At(b, j) /\ k > best[3]
            THEN flm_scan(a, b, alo, ahi, blo, bhi, n + 1,
                          <<i - k + 1, j - k + 1, k>>)
            ELSE flm_scan(a, b, alo, ahi, blo, bhi, n + 1, best)

\* the two extension loops for non-junk elements (isjunk is None, so the
\* junk set is empty and the two loops for junk elements never run)
RECURSIVE flm_extend_left(_, _, _, _, _)
flm_extend_left(a, b, alo, blo, best) ==
    IF best[1] > alo /\ best[2] > blo
       /\ At(a, best[1] - 1) = At(b, best[2] - 1)
    THEN flm_extend_left(a, b, alo, blo,
                         <<best[1] - 1, best[2] - 1, best[3] + 1>>)
    ELSE best

RECURSIVE flm_extend_right(_, _, _, _, _)
flm_extend_right(a, b, ahi, bhi, best) ==
    IF best[1] + best[3] < ahi /\ best[2] + best[3] < bhi
       /\ At(a, best[1] + best[3]) = At(b, best[2] + best[3])
    THEN flm_extend_right(a, b, ahi, bhi, <<best[1], best[2], best[3] + 1>>)
    ELSE best

find_longest_match(a, b, alo, ahi, blo, bhi) ==
    flm_extend_right(a, b, ahi, bhi,
        flm_extend_left(a, b, alo, blo,
            flm_scan(a, b, alo, ahi, blo, bhi, 0, <<alo, blo, 0>>)))

\* the work queue of get_matching_blocks followed by the sort: the blocks
\* left of a match, the match, the blocks right of it
RECURSIVE matching_blocks_raw(_, _, _, _, _, _)
matching_blocks_raw(a, b, alo, ahi, blo, bhi) ==
    LET x == find_longest_match(a, b, alo, ahi, blo, bhi)
        i == x[1]
        j == x[2]
        k == x[3]
    IN IF k = 0 THEN <<>>
       ELSE (IF alo < i /\ blo < j
             THEN matching_blocks_raw(a, b, alo, i, blo, j) ELSE <<>>)
            \o <<x>>
            \o (IF i + k < ahi /\ j + k < bhi
                THEN matching_blocks_raw(a, b, i + k, ahi, j + k, bhi)
                ELSE <<>>)

\* the loop that collapses adjacent equal blocks; cur is (i1, j1, k1)
RECURSIVE non_adjacent(_, _)
non_adjacent(blocks, cur) ==
    IF blocks = <<>>
    THEN IF cur[3] # 0 THEN <<cur>> ELSE <<>>
    ELSE LET nxt == Head(blocks)
         IN IF cur[1] + cur[3] = nxt[1] /\ cur[2] + cur[3] = nxt[2]
            THEN non_adjacent(Tail(blocks),
                              <<cur[1], cur[2], cur[3] + nxt[3]>>)
            ELSE (IF cur[3] # 0 THEN <<cur>> ELSE <<>>)
                 \o non_adjacent(Tail(blocks), nxt)

get_matching_blocks(a, b) ==
    non_adjacent(matching_blocks_raw(a, b, 0, Len(a), 0, Len(b)), <<0, 0, 0>>)
    \o << <<Len(a), Len(b), 0>> >>

\* the loop of get_opcodes; an opcode is (tag, i1, i2, j1, j2)
RECURSIVE opcodes_from(_, _, _)
opcodes_from(blocks, i, j) ==
    IF blocks = <<>> THEN <<>>
    ELSE LET ai == Head(blocks)[1]
             bj == Head(blocks)[2]
             size == Head(blocks)[3]
             tag == IF i < ai /\ j < bj THEN "replace"
                    ELSE IF i < ai THEN "delete"
                    ELSE IF j < bj THEN "insert"
                    ELSE ""
         IN (IF tag # "" THEN << <<tag, i, ai, j, bj>> >> ELSE <<>>)
            \o (IF size # 0
                THEN << <<"equal", ai, ai + size, bj, bj + size>> >>
                ELSE <<>>)
            \o opcodes_from(Tail(blocks), ai + size, bj + size)

get_opcodes(a, b) == opcodes_from(get_matching_blocks(a, b), 0, 0)

\* a ratio is the exact fraction <<numerator, denominator>>
_calculate_ratio(matches, length) ==
    IF length # 0 THEN <<2 * matches, length>> ELSE <<1, 1>>

RatioGT(r, s) == r[1] * s[2] > s[1] * r[2]
RatioLT(r, s) == r[1] * s[2] < s[1] * r[2]

ratio(a, b) ==
    LET blocks == get_matching_blocks(a, b)
    IN _calculate_ratio(SumSeq([n \in 1..Len(blocks) |-> blocks[n][3]]),
                        Len(a) + Len(b))

\* the loop of quick_ratio over the elements of a; avail maps the elements
\* seen so far to what is left of their count in b
RECURSIVE quick_matches(_, _, _, _)
quick_matches(a, b, n, avail) ==
    IF n >= Len(a) THEN 0
    ELSE LET elt == At(a, n)
             numb == IF elt \in DOMAIN avail THEN avail[elt]
                     ELSE Cardinality({m \in 1..Len(b) : b[m] = elt})
             avail2 == [e \in DOMAIN avail \cup {elt} |->
                           IF e = elt THEN numb - 1 ELSE avail[e]]
         IN (IF numb > 0 THEN 1 ELSE 0) + quick_matches(a, b, n + 1, avail2)

quick_ratio(a, b) ==
    _calculate_ratio(quick_matches(a, b, 0, <<>>), Len(a) + Len(b))

real_quick_ratio(a, b) ==
    _calculate_ratio(PyMin(Len(a), Len(b)), Len(a) + Len(b))

\* ------------------------------------------------------------ difflib.Differ
\* an output line of Differ is '%s %s' % (tag, line)
_dump(tag, x, lo, hi) ==
    [n \in 1..(hi - lo) |-> <<tag, " ">> \o At(x, lo + n - 1)]

\* _plain_replace that always dumps the block of b first
_plain_replace_added_first(a, alo, ahi, b, blo, bhi) ==
    _dump("+", b, blo, bhi) \o _dump("-", a, alo, ahi)

_plain_replace(a, alo, ahi, b, blo, bhi) ==
    IF bhi - blo < ahi - alo
    THEN _dump("+", b, blo, bhi) \o _dump("-", a, alo, ahi)
    ELSE _dump("-", a, alo, ahi) \o _dump("+", b, blo, bhi)

\* best_ratio, cutoff = 0.74, 0.75
InitialBestRatio == <<74, 100>>
Cutoff == <<75, 100>>

\* the search loop of _fancy_replace, for j in range(blo, bhi) and i in
\* range(alo, ahi), flattened to one counter n.  st.best is () or
\* (best_i, best_j); st.eq is () for eqi = None or (eqi, eqj)
RECURSIVE fancy_scan(_, _, _, _, _, _, _, _)
fancy_scan(a, alo, ahi, b, blo, bhi, n, st) ==
    IF n >= (bhi - blo) * (ahi - alo) THEN st
    ELSE LET j == blo + (n \div (ahi - alo))
             i == alo + (n % (ahi - alo))
             ai == At(a, i)
             bj == At(b, j)
         IN IF ai = bj
            THEN fancy_scan(a, alo, ahi, b, blo, bhi, n + 1,
                     IF st.eq = <<>> THEN [st EXCEPT !.eq = <<i, j>>] ELSE st)
            ELSE IF /\ RatioGT(real_quick_ratio(ai, bj), st.best_ratio)
                    /\ RatioGT(quick_ratio(ai, bj), st.best_ratio)
                    /\ RatioGT(ratio(ai, bj), st.best_ratio)
                 THEN fancy_scan(a, alo, ahi, b, blo, bhi, n + 1,
                          [st EXCEPT !.best_ratio = ratio(ai, bj),
                                     !.best = <<i, j>>])
                 ELSE fancy_scan(a, alo, ahi, b, blo, bhi, n + 1, st)

\* the loop over the character opcodes that builds atags and btags;
\* tags is (atags, btags)
RECURSIVE intraline_tags(_, _)
intraline_tags(ops, tags) ==
    IF ops = <<>> THEN tags
    ELSE LET op == Head(ops)
             la == op[3] - op[2]
             lb == op[5] - op[4]
             nxt == IF op[1] = "replace"
                    THEN <<tags[1] \o Repeat("^", la), tags[2] \o Repeat("^", lb)>>
                    ELSE IF op[1] = "delete"
                    THEN <<tags[1] \o Repeat("-", la), tags[2]>>
                    ELSE IF op[1] = "insert"
                    THEN <<tags[1], tags[2] \o Repeat("+", lb)>>
                    ELSE <<tags[1] \o Repeat(" ", la), tags[2] \o Repeat(" ", lb)>>
         IN intraline_tags(Tail(ops), nxt)

\* zip(s, tag_s) stops at the shorter of the two
_keep_original_ws(s, tag_s) ==
    [n \in 1..PyMin(Len(s), Len(tag_s)) |->
        IF tag_s[n] = " " /\ IsSpace(s[n]) THEN s[n] ELSE tag_s[n]]

RECURSIVE rstrip(_)
rstrip(s) ==
    IF s # <<>> /\ IsSpace(s[Len(s)]) THEN rstrip(SubSeq(s, 1, Len(s) - 1))
    ELSE s

_qformat(aline, bline, atags, btags) ==
    LET at == rstrip(_keep_original_ws(aline, atags))
        bt == rstrip(_keep_original_ws(bline, btags))
    IN << <<"-", " ">> \o aline >>
       \o (IF at # <<>> THEN << <<"?", " ">> \o at \o <<"\n">> >> ELSE <<>>)
       \o << <<"+", " ">> \o bline >>
       \o (IF bt # <<>> THEN << <<"?", " ">> \o bt \o <<"\n">> >> ELSE <<>>)

RECURSIVE _fancy_replace(_, _, _, _, _, _)

\* _fancy_helper
_fancy_helper(a, alo, ahi, b, blo, bhi) ==
    IF alo < ahi
    THEN IF blo < bhi THEN _fancy_replace(a, alo, ahi, b, blo, bhi)
         ELSE _dump("-", a, alo, ahi)
    ELSE IF blo < bhi THEN _dump("+", b, blo, bhi)
    ELSE <<>>

synch_pair(aelt, belt, tags, identical) ==
    IF identical THEN << <<" ", " ">> \o aelt >>
    ELSE _qformat(aelt, belt, tags[1], tags[2])

fancy_emit(a, alo, ahi, b, blo, bhi, best_i, best_j, identical) ==
    _fancy_helper(a, alo, best_i, b, blo, best_j)
    \o synch_pair(At(a, best_i), At(b, best_j),
                  intraline_tags(get_opcodes(At(a, best_i), At(b, best_j)),
                                 <<<<>>, <<>>>>),
                  identical)
    \o _fancy_helper(a, best_i + 1, ahi, b, best_j + 1, bhi)

fancy_decide(a, alo, ahi, b, blo, bhi, st) ==
    IF RatioLT(st.best_ratio, Cutoff)
    THEN IF st.eq = <<>>
         THEN _plain_replace(a, alo, ahi, b, blo, bhi)
         ELSE fancy_emit(a, alo, ahi, b, blo, bhi, st.eq[1], st.eq[2], TRUE)
    ELSE fancy_emit(a, alo, ahi, b, blo, bhi, st.best[1], st.best[2], FALSE)

_fancy_replace(a, alo, ahi, b, blo, bhi) ==
    fancy_decide(a, alo, ahi, b, blo, bhi,
        fancy_scan(a, alo, ahi, b, blo, bhi, 0,
            [best_ratio |-> InitialBestRatio, best |-> <<>>, eq |-> <<>>]))

\* the loop of Differ.compare over the line opcodes
RECURSIVE compare_ops(_, _, _)
compare_ops(a, b, ops) ==
    IF ops = <<>> THEN <<>>
    ELSE LET op == Head(ops)
             g == IF op[1] = "replace"
                  THEN _fancy_replace(a, op[2], op[3], b, op[4], op[5])
                  ELSE IF op[1] = "delete" THEN _dump("-", a, op[2], op[3])
                  ELSE IF op[1] = "insert" THEN _dump("+", b, op[4], op[5])
                  ELSE _dump(" ", a, op[2], op[3])
         IN g \o compare_ops(a, b, Tail(ops))

\* difflib.Differ().compare(a, b)
Differ_compare(a, b) == compare_ops(a, b, get_opcodes(a, b))

\* ------------------------------------------- compare_pdfs: one paired page
startswith(line, c1, c2) == Len(line) >= 2 /\ line[1] = c1 /\ line[2] = c2

\* process_differences with the '? ' branch left out: hint lines fall
\* through to the else branch
RECURSIVE process_differences_keep_hints(_)
process_differences_keep_hints(diff) ==
    IF diff = <<>> THEN <<>>
    ELSE LET line == Head(diff)
             content == Slice(line, 2, Len(line))
         IN (IF startswith(line, "-", " ")
             THEN << [type |-> "removed", content |-> content] >>
             ELSE IF startswith(line, "+", " ")
             THEN << [type |-> "added", content |-> content] >>
             ELSE << [type |-> "common", content |-> content] >>)
            \o process_differences_keep_hints(Tail(diff))

\* process_differences with the '+ ' branch left out: added lines fall
\* through to the else branch
RECURSIVE process_differences_no_added(_)
process_differences_no_added(diff) ==
    IF diff = <<>> THEN <<>>
    ELSE LET line == Head(diff)
             content == Slice(line, 2, Len(line))
         IN (IF startswith(line, "-", " ")
             THEN << [type |-> "removed", content |-> content] >>
             ELSE IF startswith(line, "?", " ")
             THEN <<>>
             ELSE << [type |-> "common", content |-> content] >>)
            \o process_differences_no_added(Tail(diff))

\* the loop over diff that builds page_result['differences']
RECURSIVE process_differences(_)
process_differences(diff) ==
    IF diff = <<>> THEN <<>>
    ELSE LET line == Head(diff)
             content == Slice(line, 2, Len(line))
         IN (IF startswith(line, "-", " ")
             THEN << [type |-> "removed", content |-> content] >>
             ELSE IF startswith(line, "+", " ")
             THEN << [type |-> "added", content |-> content] >>
             ELSE IF startswith(line, "?", " ")
             THEN <<>>
             ELSE << [type |-> "common", content |-> content] >>)
            \o process_differences(Tail(diff))

\* Diff with the two line sequences handed to Differ in the other order
Diff_swapped(text1_lines, text2_lines) ==
    process_differences(Differ_compare(text2_lines, text1_lines))

\* lines 77-101: the classified line diff of two line sequences
Diff(text1_lines, text2_lines) ==
    process_differences(Differ_compare(text1_lines, text2_lines))

\* --------------------------------------------------------- Python values
PyNone == [py |-> "NoneType"]
PyStr(s) == [py |-> "str", s |-> s]

\* -------------------------------------------------- extract_text_from_pdf
\* sub_whitespace that collapses runs of blanks and leaves newlines alone,
\* as re.sub(r'[ \t]+', ' ', text) does
RECURSIVE sub_whitespace_blanks_only(_, _)
sub_whitespace_blanks_only(text, inrun) ==
    IF text = <<>> THEN <<>>
    ELSE IF Head(text) \in {" ", "\t"}
    THEN (IF inrun THEN <<>> ELSE <<" ">>)
         \o sub_whitespace_blanks_only(Tail(text), TRUE)
    ELSE <<Head(text)>> \o sub_whitespace_blanks_only(Tail(text), FALSE)

\* re.sub(r'\s+', ' ', text); inrun: the previous character was whitespace
RECURSIVE sub_whitespace(_, _)
sub_whitespace(text, inrun) ==
    IF text = <<>> THEN <<>>
    ELSE IF IsSpace(Head(text))
    THEN (IF inrun THEN <<>> ELSE <<" ">>) \o sub_whitespace(Tail(text), TRUE)
    ELSE <<Head(text)>> \o sub_whitespace(Tail(text), FALSE)

RECURSIVE lstrip(_)
lstrip(s) == IF s # <<>> /\ IsSpace(Head(s)) THEN lstrip(Tail(s)) ELSE s

strip(s) == rstrip(lstrip(s))

\* a document is [readable, pages, meta_ok, metadata]: pages are the texts
\* page.get_text("text") returns, readable is FALSE when fitz.open or
\* load_page raises.  The result is [raised, value].
extract_text_from_pdf(pdf) ==
    IF ~pdf.readable
    THEN [raised |-> TRUE, value |-> <<>>]
    ELSE [raised |-> FALSE,
          value |-> [n \in 1..Len(pdf.pages) |->
                        strip(sub_whitespace(pdf.pages[n], FALSE))]]

\* ------------------------------------------------------- compare_metadata
\* dict.get(key) or None: an empty string is turned into None
dict_get_or_none(d, key) ==
    IF key \in DOMAIN d /\ d[key] # PyStr("") THEN d[key] ELSE PyNone

\* dict.get(key, None)
dict_get(d, key) == IF key \in DOMAIN d THEN d[key] ELSE PyNone

\* the loop over all_keys, visited in the order the set iterates (order)
RECURSIVE metadata_loop(_, _, _)
metadata_loop(meta1, meta2, order) ==
    IF order = <<>> THEN <<>>
    ELSE LET key == Head(order)
             val1 == dict_get(meta1, key)
             val2 == dict_get(meta2, key)
         IN (IF val1 # val2
             THEN << [key |-> key, pdf1_value |-> val1, pdf2_value |-> val2] >>
             ELSE <<>>)
            \o metadata_loop(meta1, meta2, Tail(order))

\* all_keys taken from the first mapping only
all_keys_first_only(meta1, meta2) == DOMAIN meta1

all_keys(meta1, meta2) == DOMAIN meta1 \cup DOMAIN meta2

\* the orders in which iterating a set can visit its elements
IterationOrders(S) ==
    {o \in [1..Cardinality(S) -> S] : {o[n] : n \in 1..Cardinality(S)} = S}

\* meta_ok is FALSE when fitz.open or doc.metadata raises in the try block
compare_metadata(pdf1, pdf2, order) ==
    IF ~pdf1.meta_ok \/ ~pdf2.meta_ok
    THEN << [error |-> PyStr("metadata unavailable")] >>
    ELSE metadata_loop(pdf1.metadata, pdf2.metadata, order)

\* ----------------------------------------------------------- compare_pdfs
\* str.split(sep) for a one-character separator; cur is the piece so far
RECURSIVE split_from(_, _, _)
split_from(text, sep, cur) ==
    IF text = <<>> THEN <<cur>>
    ELSE IF Head(text) = sep
    THEN <<cur>> \o split_from(Tail(text), sep, <<>>)
    ELSE split_from(Tail(text), sep, Append(cur, Head(text)))

split(text, sep) == split_from(text, sep, <<>>)

\* page_result with the two page-only branches exchanged
page_result_swapped(text1_by_page, text2_by_page, i) ==
    [page_number |-> i + 1,
     differences |->
        IF i < Len(text1_by_page) /\ i < Len(text2_by_page)
        THEN Diff(split(At(text1_by_page, i), "\n"),
                  split(At(text2_by_page, i), "\n"))
        ELSE IF i < Len(text1_by_page)
        THEN << [type |-> "page_only_in_pdf2",
                 content |-> At(text1_by_page, i)] >>
        ELSE << [type |-> "page_only_in_pdf1",
                 content |-> At(text2_by_page, i)] >>]

\* the body of the page loop for index i (0-based)
page_result(text1_by_page, text2_by_page, i) ==
    [page_number |-> i + 1,
     differences |->
        IF i < Len(text1_by_page) /\ i < Len(text2_by_page)
        THEN Diff(split(At(text1_by_page, i), "\n"),
                  split(At(text2_by_page, i), "\n"))
        ELSE IF i < Len(text1_by_page)
        THEN << [type |-> "page_only_in_pdf1",
                 content |-> At(text1_by_page, i)] >>
        ELSE << [type |-> "page_only_in_pdf2",
                 content |-> At(text2_by_page, i)] >>]

\* page_comparisons looping over the shorter document only
page_comparisons_shorter(text1_by_page, text2_by_page) ==
    [n \in 1..PyMin(Len(text1_by_page), Len(text2_by_page)) |->
        [page_number |-> n,
         differences |-> Diff(split(text1_by_page[n], "\n"),
                              split(text2_by_page[n], "\n"))]]

page_comparisons(text1_by_page, text2_by_page) ==
    [n \in 1..PyMax(Len(text1_by_page), Len(text2_by_page)) |->
        page_result(text1_by_page, text2_by_page, n - 1)]

\* CountedTypes with the page-only markers counted as lines
CountedTypes_with_markers ==
    {"added", "removed", "common", "page_only_in_pdf1", "page_only_in_pdf2"}

\* the entries the score counts
CountedTypes == {"added", "removed", "common"}

\* the two nested loops of the score; the result is
\* (total_lines, common_lines)
RECURSIVE count_differences(_)
count_differences(differences) ==
    IF differences = <<>> THEN <<0, 0>>
    ELSE LET diff == Head(differences)
             rest == count_differences(Tail(differences))
         IN IF diff.type \in CountedTypes
            THEN <<rest[1] + 1,
                   rest[2] + (IF diff.type = "common" THEN 1 ELSE 0)>>
            ELSE rest

RECURSIVE count_lines(_)
count_lines(pages) ==
    IF pages = <<>> THEN <<0, 0>>
    ELSE LET here == count_differences(Head(pages).differences)
             rest == count_lines(Tail(pages))
         IN <<here[1] + rest[1], here[2] + rest[2]>>

\* similarity_score without the multiplication by 100
similarity_score_fraction(pages) ==
    LET total_lines == count_lines(pages)[1]
        common_lines == count_lines(pages)[2]
    IN IF total_lines > 0 THEN <<common_lines, total_lines>>
       ELSE <<0, 1>>

\* (common_lines / total_lines) * 100 as the exact fraction
\* <<numerator, denominator>>, or 0
similarity_score(pages) ==
    LET total_lines == count_lines(pages)[1]
        common_lines == count_lines(pages)[2]
    IN IF total_lines > 0 THEN <<common_lines * 100, total_lines>>
       ELSE <<0, 1>>

\* the results dict of a comparison whose two extractions succeeded
build_results(comparison_id, pdf1, pdf2, order) ==
    LET text1_by_page == extract_text_from_pdf(pdf1).value
        text2_by_page == extract_text_from_pdf(pdf2).value
        pages == page_comparisons(text1_by_page, text2_by_page)
    IN [comparison_id |-> comparison_id,
        pdf1_pages |-> Len(text1_by_page),
        pdf2_pages |-> Len(text2_by_page),
        page_comparisons |-> pages,
        metadata_diff |-> compare_metadata(pdf1, pdf2, order),
        similarity_score |-> similarity_score(pages)]

\* lines 56-62: the results dict before the page loop
results_initial(comparison_id, text1_by_page, text2_by_page, metadata_diff) ==
    [comparison_id |-> comparison_id,
     pdf1_pages |-> Len(text1_by_page),
     pdf2_pages |-> Len(text2_by_page),
     page_comparisons |-> <<>>,
     metadata_diff |-> metadata_diff]

\* line 115: results['page_comparisons'].append(page_result)
results_append(results, page) ==
    [results EXCEPT !.page_comparisons = Append(@, page)]

\* lines 128-131: results['similarity_score'] = ...
results_scored(results) ==
    [comparison_id |-> results.comparison_id,
     pdf1_pages |-> results.pdf1_pages,
     pdf2_pages |-> results.pdf2_pages,
     page_comparisons |-> results.page_comparisons,
     metadata_diff |-> results.metadata_diff,
     similarity_score |-> similarity_score(results.page_comparisons)]

\* the store rebound to a new dict that holds the new entry only
dict_set_fresh(d, key, value) == [k \in {key} |-> value]

\* self.comparison_results[comparison_id] = results
dict_set(d, key, value) ==
    [k \in DOMAIN d \cup {key} |-> IF k = key THEN value ELSE d[k]]

\* self.comparison_results.get(comparison_id)
get_comparison_result(store, comparison_id) == dict_get(store, comparison_id)

\* ------------------------------------------------------------------ inputs
\* lines the line diff is tried on
LinePool ==
    << <<"a", "a">>, <<"a", "a", "b">>, <<>>, <<"b">>, <<"a", "b">>,
       <<"a", " ", "b">> >>
Lines == {LinePool[n] : n \in 1..NumLines}
LineSeqs == UNION {[1..n -> Lines] : n \in 0..MaxLines}

\* texts as page.get_text("text") returns them
RawPool ==
    << <<"a", "a", "\n">>, <<"a", "\n", "b", "\n">>, <<>>,
       <<"a", " ", " ", "b">>, <<" ", "a", "a">>, <<"b", "\n", "\n", "a">> >>
RawTexts == {RawPool[n] : n \in 1..NumTexts}
PageSeqs == UNION {[1..n -> RawTexts] : n \in 0..MaxPages}

\* metadata keys and values; doc.metadata holds strings and None
KeyPool == <<"title", "encryption", "author", "subject">>
Keys == {KeyPool[n] : n \in 1..NumKeys}
MetaValues == {PyNone, PyStr(""), PyStr("T")}
MetaMaps == UNION {[K -> MetaValues] : K \in SUBSET Keys}

EmptyDict == [k \in {} |-> PyNone]

\* a document whose fitz.open or load_page raises
Unreadable ==
    [readable |-> FALSE, pages |-> <<>>, meta_ok |-> FALSE,
     metadata |-> EmptyDict]

\* a readable document with the given pages and metadata
Readable(pages, metadata) ==
    [readable |-> TRUE, pages |-> pages, meta_ok |-> TRUE,
     metadata |-> metadata]

\* a readable document whose metadata cannot be read
NoMetadata(pages) ==
    [readable |-> TRUE, pages |-> pages, meta_ok |-> FALSE,
     metadata |-> EmptyDict]

TitledT == [title |-> PyStr("T"), encryption |-> PyNone]
Untitled == [title |-> PyStr(""), encryption |-> PyNone]

\* the documents that are compared as whole files: every page sequence,
\* and for one of them the other metadata outcomes
Docs ==
    {Unreadable}
    \cup {Readable(ps, TitledT) : ps \in PageSeqs}
    \cup {Readable(<<RawPool[1]>>, Untitled), NoMetadata(<<RawPool[1]>>)}

\* the identifiers uuid4 can return
IdPool == <<"id1", "id2", "id3", "id4", "id5">>
Ids == {PyStr(IdPool[n]) : n \in 1..(MaxComparisons + 1)}

\* the position of an identifier in IdPool
IdRank(id) == CHOOSE n \in 1..Len(IdPool) : PyStr(IdPool[n]) = id

\* an identifier that uuid4 may return again
uuid4_repeating(used) == Ids

\* str(uuid.uuid4()): an identifier not returned before (used)
uuid4(used) == Ids \ used

\* the documents uploaded in the behaviours that exercise the store
StoreDocs ==
    {Unreadable,
     Readable(<<RawPool[1]>>, TitledT),
     NoMetadata(<<RawPool[1], RawPool[2]>>)}

\* the uploads of the requests that run concurrently: two pairs that
\* compare, with different page counts, and one whose first file cannot be
\* opened
ConcurrentUploads ==
    {<<Readable(<<RawPool[1]>>, TitledT),
       NoMetadata(<<RawPool[1], RawPool[2]>>)>>,
     <<NoMetadata(<<RawPool[1], RawPool[2]>>),
       Readable(<<RawPool[1]>>, TitledT)>>,
     <<Unreadable, Readable(<<RawPool[1]>>, TitledT)>>}

\* ------------------------------------------------------------------- state
VARIABLES
    comparison_results,   \* PDFComparer.comparison_results
    uuids,                \* the identifiers uuid4 has returned so far
    returned,             \* history: what compare_pdfs returned, by identifier
    uploads,              \* the uploads clients make: pairs (pdf1, pdf2)
    response,             \* the value the last call returned, with its arguments
    text1_lines,          \* inputs of the line diff tried on its own
    text2_lines,
    meta1,                \* inputs of the metadata comparison tried on its own
    meta2,
    requests              \* the compare_pdfs calls in flight: position and locals

vars == <<comparison_results, uuids, returned, uploads, response,
          text1_lines, text2_lines, meta1, meta2, requests>>

NoResponse == [op |-> "none"]

\* a request slot in which no compare_pdfs call has started
Requests == 1..NumRequests
Idle ==
    [pc |-> "idle", pdf1 |-> Unreadable, pdf2 |-> Unreadable,
     text1_by_page |-> <<>>, text2_by_page |-> <<>>,
     comparison_id |-> PyNone, results |-> PyNone]

\* PDFComparer.__init__ and the module-level pdf_comparer
ComparerInit ==
    /\ comparison_results = EmptyDict
    /\ uuids = {}
    /\ returned = EmptyDict
    /\ response = NoResponse
    /\ requests = [r \in Requests |-> Idle]

Init ==
    /\ ComparerInit
    /\ uploads = StoreDocs \X StoreDocs
    /\ text1_lines = <<>>
    /\ text2_lines = <<>>
    /\ meta1 = EmptyDict
    /\ meta2 = EmptyDict

\* requests that run concurrently
InitConcurrent ==
    /\ ComparerInit
    /\ uploads = ConcurrentUploads
    /\ text1_lines = <<>>
    /\ text2_lines = <<>>
    /\ meta1 = EmptyDict
    /\ meta2 = EmptyDict

\* one comparison of any two documents
InitCompare ==
    /\ ComparerInit
    /\ uploads \in {{<<pdf1, pdf2>>} : pdf1 \in Docs, pdf2 \in Docs}
    /\ text1_lines = <<>>
    /\ text2_lines = <<>>
    /\ meta1 = EmptyDict
    /\ meta2 = EmptyDict

\* the line diff on any two line sequences
InitDiff ==
    /\ ComparerInit
    /\ uploads = {}
    /\ text1_lines \in LineSeqs
    /\ text2_lines \in LineSeqs
    /\ meta1 = EmptyDict
    /\ meta2 = EmptyDict

\* the metadata comparison on any two mappings
InitMeta ==
    /\ ComparerInit
    /\ uploads = {}
    /\ text1_lines = <<>>
    /\ text2_lines = <<>>
    /\ meta1 \in MetaMaps
    /\ meta2 \in MetaMaps

\* ----------------------------------------------------------------- actions
\* compare_pdfs when an extraction raises: the except branch
compare_pdfs_error(pdf1, pdf2) ==
    /\ extract_text_from_pdf(pdf1).raised \/ extract_text_from_pdf(pdf2).raised
    /\ response' = [op |-> "compare_pdfs", pdf1 |-> pdf1, pdf2 |-> pdf2,
                    value |-> [error |-> PyStr("cannot open document"),
                               comparison_id |-> PyNone]]
    /\ UNCHANGED <<comparison_results, uuids, returned, uploads,
                   text1_lines, text2_lines, meta1, meta2, requests>>

\* compare_pdfs when both extractions succeed; uuid4 returns an identifier
\* it has not returned before
compare_pdfs_ok(pdf1, pdf2) ==
    /\ ~extract_text_from_pdf(pdf1).raised
    /\ ~extract_text_from_pdf(pdf2).raised
    /\ \E comparison_id \in uuid4(uuids) :
       \E order \in IterationOrders(all_keys(pdf1.metadata, pdf2.metadata)) :
          LET results == build_results(comparison_id, pdf1, pdf2, order)
          IN /\ uuids' = uuids \cup {comparison_id}
             /\ comparison_results' =
                    dict_set(comparison_results, comparison_id, results)
             /\ returned' = (comparison_id :> results) @@ returned
             /\ response' = [op |-> "compare_pdfs", pdf1 |-> pdf1,
                             pdf2 |-> pdf2, value |-> results]
    /\ UNCHANGED <<uploads, text1_lines, text2_lines, meta1, meta2, requests>>

compare_pdfs(pdf1, pdf2) ==
    \/ compare_pdfs_error(pdf1, pdf2)
    \/ compare_pdfs_ok(pdf1, pdf2)

\* the route get_comparison_api: the lookup, and 404 when it found nothing
get_comparison_api(comparison_id) ==
    /\ response' =
          [op |-> "get_comparison_result",
           comparison_id |-> comparison_id,
           value |-> get_comparison_result(comparison_results, comparison_id),
           status |-> IF get_comparison_result(comparison_results,
                                               comparison_id) = PyNone
                      THEN 404 ELSE 200]
    /\ UNCHANGED <<comparison_results, uuids, returned, uploads,
                   text1_lines, text2_lines, meta1, meta2, requests>>

\* ------------------------------------- compare_pdfs of request r, by line
\* the route compare calls pdf_comparer.compare_pdfs with its two uploads;
\* the requests are numbered in the order in which they call
call_compare_pdfs(r, pdf1, pdf2) ==
    /\ requests[r].pc = "idle"
    /\ \A q \in Requests : q < r => requests[q].pc # "idle"
    /\ requests' = [requests EXCEPT ![r].pc = "line51",
                                     ![r].pdf1 = pdf1,
                                     ![r].pdf2 = pdf2]
    /\ UNCHANGED <<comparison_results, uuids, returned, uploads, response,
                   text1_lines, text2_lines, meta1, meta2>>

\* line 51; an exception leads to the except branch
extract_text1(r) ==
    /\ requests[r].pc = "line51"
    /\ requests' =
          IF extract_text_from_pdf(requests[r].pdf1).raised
          THEN [requests EXCEPT ![r].pc = "line136"]
          ELSE [requests EXCEPT
                   ![r].pc = "line52",
                   ![r].text1_by_page =
                       extract_text_from_pdf(requests[r].pdf1).value]
    /\ UNCHANGED <<comparison_results, uuids, returned, uploads, response,
                   text1_lines, text2_lines, meta1, meta2>>

\* line 52
extract_text2(r) ==
    /\ requests[r].pc = "line52"
    /\ requests' =
          IF extract_text_from_pdf(requests[r].pdf2).raised
          THEN [requests EXCEPT ![r].pc = "line136"]
          ELSE [requests EXCEPT
                   ![r].pc = "line55",
                   ![r].text2_by_page =
                       extract_text_from_pdf(requests[r].pdf2).value]
    /\ UNCHANGED <<comparison_results, uuids, returned, uploads, response,
                   text1_lines, text2_lines, meta1, meta2>>

\* line 55; identifiers are opaque, so they are named in the order in which
\* they are drawn: of the identifiers uuid4 can return, the first of IdPool
draw_comparison_id(r) ==
    /\ requests[r].pc = "line55"
    /\ \E comparison_id \in uuid4(uuids) :
          /\ \A other \in uuid4(uuids) : IdRank(comparison_id) <= IdRank(other)
          /\ uuids' = uuids \cup {comparison_id}
          /\ requests' = [requests EXCEPT ![r].pc = "line56",
                                           ![r].comparison_id = comparison_id]
    /\ UNCHANGED <<comparison_results, returned, uploads, response,
                   text1_lines, text2_lines, meta1, meta2>>

\* lines 56-62, with the call of compare_metadata
create_results(r) ==
    /\ requests[r].pc = "line56"
    /\ \E order \in IterationOrders(all_keys(requests[r].pdf1.metadata,
                                              requests[r].pdf2.metadata)) :
          requests' =
             [requests EXCEPT
                 ![r].pc = "line65",
                 ![r].results =
                     results_initial(requests[r].comparison_id,
                                     requests[r].text1_by_page,
                                     requests[r].text2_by_page,
                                     compare_metadata(requests[r].pdf1,
                                                      requests[r].pdf2,
                                                      order))]
    /\ UNCHANGED <<comparison_results, uuids, returned, uploads, response,
                   text1_lines, text2_lines, meta1, meta2>>

\* lines 65-115: one iteration of the page loop; i is the number of pages
\* appended so far
compare_page(r) ==
    /\ requests[r].pc = "line65"
    /\ Len(requests[r].results.page_comparisons)
          < PyMax(Len(requests[r].text1_by_page),
                  Len(requests[r].text2_by_page))
    /\ requests' =
          [requests EXCEPT
              ![r].results =
                  results_append(requests[r].results,
                      page_result(requests[r].text1_by_page,
                                  requests[r].text2_by_page,
                                  Len(requests[r].results.page_comparisons)))]
    /\ UNCHANGED <<comparison_results, uuids, returned, uploads, response,
                   text1_lines, text2_lines, meta1, meta2>>

\* lines 117-131, entered when the page loop is over
calculate_score(r) ==
    /\ requests[r].pc = "line65"
    /\ Len(requests[r].results.page_comparisons)
          = PyMax(Len(requests[r].text1_by_page),
                  Len(requests[r].text2_by_page))
    /\ requests' = [requests EXCEPT
                       ![r].pc = "line133",
                       ![r].results = results_scored(requests[r].results)]
    /\ UNCHANGED <<comparison_results, uuids, returned, uploads, response,
                   text1_lines, text2_lines, meta1, meta2>>

\* line 133
store_results(r) ==
    /\ requests[r].pc = "line133"
    /\ comparison_results' =
          dict_set(comparison_results, requests[r].comparison_id,
                   requests[r].results)
    /\ requests' = [requests EXCEPT ![r].pc = "line134"]
    /\ UNCHANGED <<uuids, returned, uploads, response,
                   text1_lines, text2_lines, meta1, meta2>>

\* line 134
return_results(r) ==
    /\ requests[r].pc = "line134"
    /\ returned' =
          (requests[r].comparison_id :> requests[r].results) @@ returned
    /\ response' = [op |-> "compare_pdfs", pdf1 |-> requests[r].pdf1,
                    pdf2 |-> requests[r].pdf2, value |-> requests[r].results]
    /\ requests' = [requests EXCEPT ![r].pc = "done"]
    /\ UNCHANGED <<comparison_results, uuids, uploads,
                   text1_lines, text2_lines, meta1, meta2>>

\* lines 136-141
return_error(r) ==
    /\ requests[r].pc = "line136"
    /\ response' = [op |-> "compare_pdfs", pdf1 |-> requests[r].pdf1,
                    pdf2 |-> requests[r].pdf2,
                    value |-> [error |-> PyStr("cannot open document"),
                               comparison_id |-> PyNone]]
    /\ requests' = [requests EXCEPT ![r].pc = "done"]
    /\ UNCHANGED <<comparison_results, uuids, returned, uploads,
                   text1_lines, text2_lines, meta1, meta2>>

\* lines 77-101 applied to text1_lines and text2_lines
line_diff ==
    /\ response' = [op |-> "Diff", value |-> Diff(text1_lines, text2_lines)]
    /\ UNCHANGED <<comparison_results, uuids, returned, uploads,
                   text1_lines, text2_lines, meta1, meta2, requests>>

\* lines 158-173 applied to meta1 and meta2
metadata_diff ==
    /\ \E order \in IterationOrders(all_keys(meta1, meta2)) :
          response' = [op |-> "compare_metadata",
                       value |-> metadata_loop(meta1, meta2, order)]
    /\ UNCHANGED <<comparison_results, uuids, returned, uploads,
                   text1_lines, text2_lines, meta1, meta2, requests>>

\* ---------------------------------------------------------- specifications
Next ==
    \/ \E upload \in uploads :
          /\ Cardinality(uuids) < MaxComparisons
          /\ compare_pdfs(upload[1], upload[2])
    \/ \E comparison_id \in Ids : get_comparison_api(comparison_id)

Spec == Init /\ [][Next]_vars

\* compare requests and lookups served by concurrent threads: a step is one
\* statement of one request, or one lookup
NextConcurrent ==
    \/ \E r \in Requests :
          \/ \E upload \in uploads : call_compare_pdfs(r, upload[1], upload[2])
          \/ extract_text1(r)
          \/ extract_text2(r)
          \/ draw_comparison_id(r)
          \/ create_results(r)
          \/ compare_page(r)
          \/ calculate_score(r)
          \/ store_results(r)
          \/ return_results(r)
          \/ return_error(r)
    \/ \E comparison_id \in Ids : get_comparison_api(comparison_id)

SpecConcurrent == InitConcurrent /\ [][NextConcurrent]_vars

NextCompare ==
    \E upload \in uploads :
        /\ uuids = {}
        /\ compare_pdfs(upload[1], upload[2])

SpecCompare == InitCompare /\ [][NextCompare]_vars

NextDiff == line_diff

SpecDiff == InitDiff /\ [][NextDiff]_vars

NextMeta == metadata_diff

SpecMeta == InitMeta /\ [][NextMeta]_vars

\* ------------------------------------------------------------- properties
IsResult(v) == "page_comparisons" \in DOMAIN v
IsError(v) == "error" \in DOMAIN v

\* the last call was a compare_pdfs that returned a results dict
Compared == response.op = "compare_pdfs" /\ IsResult(response.value)

\* the page texts the comparison worked on
PagesA == extract_text_from_pdf(response.pdf1).value
PagesB == extract_text_from_pdf(response.pdf2).value

\* the contents of the entries of the given types, in output order
RECURSIVE ContentsOf(_, _)
ContentsOf(differences, types) ==
    IF differences = <<>> THEN <<>>
    ELSE (IF Head(differences).type \in types
          THEN <<Head(differences).content>> ELSE <<>>)
         \o ContentsOf(Tail(differences), types)

\* the entries of all pages of a result, as (page, position) pairs
EntriesOf(pages) ==
    UNION {{<<p, k>> : k \in 1..Len(pages[p].differences)} :
              p \in 1..Len(pages)}
CountOf(pages, type) ==
    Cardinality({pk \in EntriesOf(pages) :
                    pages[pk[1]].differences[pk[2]].type = type})

AllCommon(lines) ==
    [n \in 1..Len(lines) |-> [type |-> "common", content |-> lines[n]]]

\* C1: a result of compare_pdfs has max(len(A), len(B)) page_comparisons
\* entries, numbered 1, 2, ... in order, and pdf1_pages = len(A),
\* pdf2_pages = len(B), where A and B are the pages of the two documents
C1_PageCount ==
    Compared =>
        LET r == response.value
            la == Len(response.pdf1.pages)
            lb == Len(response.pdf2.pages)
        IN /\ Len(r.page_comparisons) = (IF la >= lb THEN la ELSE lb)
           /\ \A n \in 1..Len(r.page_comparisons) :
                 r.page_comparisons[n].page_number = n
           /\ r.pdf1_pages = la
           /\ r.pdf2_pages = lb

\* a document without pages was compared with one of two pages
C1_Witness ==
    /\ Compared
    /\ Len(response.pdf1.pages) = 0
    /\ Len(response.pdf2.pages) = 2

\* C2: the similarity score is 100 * common / (common + added + removed)
\* over the entries of all pages when that total is positive and 0 when it
\* is 0; page-only markers are not counted; the score lies in [0, 100]
C2_Score ==
    Compared =>
        LET r == response.value
            common == CountOf(r.page_comparisons, "common")
            added == CountOf(r.page_comparisons, "added")
            removed == CountOf(r.page_comparisons, "removed")
            total == common + added + removed
            score == r.similarity_score
        IN /\ score[2] > 0
           /\ total > 0 => score[1] * total = 100 * common * score[2]
           /\ total = 0 => score[1] = 0
           /\ 0 <= score[1]
           /\ score[1] <= 100 * score[2]

\* a result with a page-only marker and a score of 100 * 1 / 1
C2_Witness ==
    /\ Compared
    /\ CountOf(response.value.page_comparisons, "page_only_in_pdf1") = 1
    /\ CountOf(response.value.page_comparisons, "common") = 1
    /\ response.value.similarity_score = <<100, 1>>

\* C3: in the output of Diff(A, B) the common and removed contents, in
\* output order, are the lines of A, and the common and added contents are
\* the lines of B
C3_Conservation ==
    response.op = "Diff" =>
        /\ ContentsOf(response.value, {"common", "removed"}) = text1_lines
        /\ ContentsOf(response.value, {"common", "added"}) = text2_lines

\* Differ produced a '? ' hint line and the diff has a common entry
C3_Witness ==
    /\ response.op = "Diff"
    /\ \E n \in 1..Len(Differ_compare(text1_lines, text2_lines)) :
          startswith(Differ_compare(text1_lines, text2_lines)[n], "?", " ")
    /\ ContentsOf(response.value, {"common"}) # <<>>

\* Diff(L, L) is all common, in the order of L, for every line sequence L
DiffOfEqualIsCommon == \A L \in LineSeqs : Diff(L, L) = AllCommon(L)

\* C4: comparing identical non-empty page sequences gives, on every page,
\* only common entries holding that page's lines in order, and a score of
\* 100; Diff(L, L) is all common for every line sequence L
C4_Identical ==
    (Compared /\ PagesA = PagesB /\ PagesA # <<>>) =>
          LET r == response.value
          IN /\ DiffOfEqualIsCommon
             /\ \A n \in 1..Len(PagesA) :
                   r.page_comparisons[n].differences
                       = AllCommon(split(PagesA[n], "\n"))
             /\ r.similarity_score[1] = 100 * r.similarity_score[2]

\* two documents with the same two pages were compared
C4_Witness ==
    /\ Compared
    /\ PagesA = PagesB
    /\ Len(PagesA) = 2
    /\ PagesA[1] # PagesA[2]

\* the classifications ab of Diff(A, B) and ba of Diff(B, A) mirror each
\* other
Mirrored(ab, ba) ==
    /\ ContentsOf(ab, {"common"}) = ContentsOf(ba, {"common"})
    /\ ContentsOf(ab, {"removed"}) = ContentsOf(ba, {"added"})
    /\ ContentsOf(ab, {"added"}) = ContentsOf(ba, {"removed"})

PageOnlyTypes == {"page_only_in_pdf1", "page_only_in_pdf2"}

\* C6: a page index below both lengths carries the line diff of A[i]
\* against B[i] and no page-only marker; an index at or beyond the shorter
\* length carries exactly one page-only marker, for document 1 when
\* len(A) > i and for document 2 otherwise, holding that page's full text
C6_Positional ==
    Compared =>
        LET r == response.value
        IN \A n \in 1..Len(r.page_comparisons) :
              LET d == r.page_comparisons[n].differences
              IN IF n <= Len(PagesA) /\ n <= Len(PagesB)
                 THEN /\ d = Diff(split(PagesA[n], "\n"), split(PagesB[n], "\n"))
                      /\ \A k \in 1..Len(d) : d[k].type \notin PageOnlyTypes
                 ELSE /\ Len(d) = 1
                      /\ Len(PagesA) >= n =>
                            d[1] = [type |-> "page_only_in_pdf1",
                                    content |-> PagesA[n]]
                      /\ Len(PagesA) < n =>
                            d[1] = [type |-> "page_only_in_pdf2",
                                    content |-> PagesB[n]]

\* the second document has one page more, and the shared page differs
C6_Witness ==
    /\ Compared
    /\ Len(PagesA) = 1
    /\ Len(PagesB) = 2
    /\ PagesA[1] # PagesB[1]
    /\ response.value.page_comparisons[2].differences[1].type
          = "page_only_in_pdf2"

\* the entries of a metadata diff that name key
EntriesFor(entries, key) ==
    {n \in 1..Len(entries) : entries[n].key = key}

\* C7: compare_metadata gives exactly one entry for each key of the union
\* of the key sets whose values differ, an absent key differing from every
\* present string, the empty one included, and no entry for a key whose
\* values are equal; CompareMetadata(M, M) is empty
C7_MetadataDiff ==
    response.op = "compare_metadata" =>
        LET out == response.value
        IN /\ \A n \in 1..Len(out) :
                 /\ out[n].key \in DOMAIN meta1 \cup DOMAIN meta2
                 /\ out[n].key \in DOMAIN meta1 =>
                       out[n].pdf1_value = meta1[out[n].key]
                 /\ out[n].key \in DOMAIN meta2 =>
                       out[n].pdf2_value = meta2[out[n].key]
                 /\ out[n].key \notin DOMAIN meta1 => out[n].pdf1_value = PyNone
                 /\ out[n].key \notin DOMAIN meta2 => out[n].pdf2_value = PyNone
           /\ \A k \in DOMAIN meta1 \cap DOMAIN meta2 :
                 Cardinality(EntriesFor(out, k))
                    = (IF meta1[k] # meta2[k] THEN 1 ELSE 0)
           /\ \A k \in DOMAIN meta1 \ DOMAIN meta2 :
                 meta1[k] # PyNone => Cardinality(EntriesFor(out, k)) = 1
           /\ \A k \in DOMAIN meta2 \ DOMAIN meta1 :
                 meta2[k] # PyNone => Cardinality(EntriesFor(out, k)) = 1
           /\ meta1 = meta2 => out = <<>>

\* one key differs in value, the other is present (as the empty string)
\* on the second side only
C7_Witness ==
    /\ response.op = "compare_metadata"
    /\ DOMAIN meta1 = {"title"}
    /\ DOMAIN meta2 = {"title", "encryption"}
    /\ meta1["title"] # meta2["title"]
    /\ meta2["encryption"] = PyStr("")
    /\ Len(response.value) = 2

\* C8 as stated: CompareMetadata(M, empty mapping) has an entry for every
\* key of M, for M from string keys to optional string values
C8_AgainstEmpty_Original ==
    (response.op = "compare_metadata" /\ meta2 = EmptyDict) =>
        \A k \in DOMAIN meta1 : EntriesFor(response.value, k) # {}

\* C8 amended: CompareMetadata(M, empty mapping) has an entry for every key
\* of M whose value is a string
C8_AgainstEmpty ==
    (response.op = "compare_metadata" /\ meta2 = EmptyDict) =>
        \A k \in DOMAIN meta1 :
            meta1[k] # PyNone => EntriesFor(response.value, k) # {}

\* a mapping with an empty string and a None value against the empty mapping
C8_Witness ==
    /\ response.op = "compare_metadata"
    /\ meta2 = EmptyDict
    /\ DOMAIN meta1 = {"title", "encryption"}
    /\ meta1["title"] = PyStr("")
    /\ meta1["encryption"] = PyNone
    /\ Len(response.value) = 1

\* a lookup of every identifier gives what compare_pdfs returned under it,
\* and None for an identifier no comparison returned
LookupsFaithful ==
    /\ \A id \in Ids :
          get_comparison_result(comparison_results, id)
             = (IF id \in DOMAIN returned THEN returned[id] ELSE PyNone)
    /\ \A id \in DOMAIN returned : returned[id].comparison_id = id
    /\ response.op = "get_comparison_result" =>
          /\ response.value
                = (IF response.comparison_id \in DOMAIN returned
                   THEN returned[response.comparison_id] ELSE PyNone)
          /\ response.status
                = (IF response.comparison_id \in DOMAIN returned
                   THEN 200 ELSE 404)

\* a step keeps every stored entry as it is
EntriesKept ==
    \A id \in DOMAIN comparison_results :
        /\ id \in DOMAIN comparison_results'
        /\ comparison_results'[id] = comparison_results[id]

\* C9: after any sequence of compare_pdfs and get_comparison_result calls a
\* lookup returns the result compare_pdfs returned under that identifier,
\* and not-found for an identifier never returned; no stored entry is ever
\* overwritten, changed or removed
C9_Store == []LookupsFaithful /\ [][EntriesKept]_vars

\* two results are stored and a lookup returned one of them
C9_Witness ==
    /\ Cardinality(DOMAIN comparison_results) = 2
    /\ response.op = "get_comparison_result"
    /\ response.value # PyNone
    /\ response.status = 200

\* a results dict with its pages, a metadata diff made of key/value entries
\* only, and a score
IsComplete(v) ==
    /\ IsResult(v)
    /\ "similarity_score" \in DOMAIN v
    /\ "metadata_diff" \in DOMAIN v
    /\ \A n \in 1..Len(v.metadata_diff) :
          DOMAIN v.metadata_diff[n] = {"key", "pdf1_value", "pdf2_value"}

\* C10: every compare_pdfs call either produces a complete result and
\* stores it under its identifier, or returns an error and leaves the store
\* unchanged, also when metadata extraction fails
C10_NoPartialResult ==
    [][(response' # response /\ response'.op = "compare_pdfs") =>
          \/ /\ IsComplete(response'.value)
             /\ response'.value.comparison_id \in DOMAIN comparison_results'
             /\ comparison_results'[response'.value.comparison_id]
                   = response'.value
          \/ /\ IsError(response'.value)
             /\ comparison_results' = comparison_results]_vars

\* results is what compare_pdfs computes from the inputs and the identifier
\* of request req
ComputedFrom(results, req) ==
    \E order \in IterationOrders(all_keys(req.pdf1.metadata,
                                          req.pdf2.metadata)) :
        results = build_results(req.comparison_id, req.pdf1, req.pdf2, order)

\* the requests that have drawn an identifier, and those that have stored
Identified == {r \in Requests : requests[r].comparison_id # PyNone}
Stored == {r \in Requests : requests[r].pc \in {"line134", "done"}
                               /\ requests[r].comparison_id # PyNone}

\* every request that passed line 133 has its own result stored under its
\* own identifier, identifiers are distinct, the store holds nothing else,
\* and a lookup returned nothing or the whole result of the request that
\* owns the identifier
IsolatedResults ==
    /\ \A r \in Stored :
          /\ requests[r].comparison_id \in DOMAIN comparison_results
          /\ comparison_results[requests[r].comparison_id]
                = requests[r].results
          /\ ComputedFrom(requests[r].results, requests[r])
    /\ \A r1 \in Identified : \A r2 \in Identified :
          r1 # r2 => requests[r1].comparison_id # requests[r2].comparison_id
    /\ \A id \in DOMAIN comparison_results :
          \E r \in Stored : requests[r].comparison_id = id
    /\ response.op = "get_comparison_result" =>
          \/ response.value = PyNone
          \/ \E r \in Identified :
                /\ requests[r].comparison_id = response.comparison_id
                /\ ComputedFrom(response.value, requests[r])

\* C11: with compare requests and lookups interleaved statement by
\* statement, every successful comparison is stored under its own distinct
\* identifier with the result computed from its own inputs, no stored
\* result is lost, overwritten or mixed, and a lookup never returns a
\* partially built result
C11_Isolation == []IsolatedResults /\ [][EntriesKept]_vars

\* a lookup returned the stored result of one request while another
\* request, comparing other documents, is inside its page loop
C11_Witness ==
    \E r1 \in Requests : \E r2 \in Requests :
        /\ r1 \in Stored
        /\ requests[r2].pc = "line65"
        /\ Len(requests[r2].results.page_comparisons) = 1
        /\ Len(requests[r2].text2_by_page) = 2
        /\ requests[r1].pdf2 # requests[r2].pdf2
        /\ response.op = "get_comparison_result"
        /\ response.comparison_id = requests[r1].comparison_id
        /\ response.value = requests[r1].results
        /\ response.status = 200

\* within every run of entries between two common entries, no added entry
\* comes before a removed entry
RemovedBeforeAdded(differences) ==
    \A n \in 1..(Len(differences) - 1) :
        ~(differences[n].type = "added" /\ differences[n + 1].type = "removed")

\* the entries keep the left-to-right order of both line sequences
OrderPreserved(differences, linesA, linesB) ==
    /\ ContentsOf(differences, {"removed", "common"}) = linesA
    /\ ContentsOf(differences, {"added", "common"}) = linesB

PairedPages == 1..PyMin(Len(PagesA), Len(PagesB))

\* C13: on a paired page where one document has no text and the other has
\* text, every line of the page with text is emitted as added when it is of
\* document 2 and as removed when it is of document 1, and the page has no
\* common entry
C13_EmptySide ==
    Compared =>
        \A n \in PairedPages :
            LET d == response.value.page_comparisons[n].differences
            IN /\ (PagesA[n] = <<>> /\ PagesB[n] # <<>>) =>
                     /\ ContentsOf(d, {"added"}) = split(PagesB[n], "\n")
                     /\ ContentsOf(d, {"common"}) = <<>>
               /\ (PagesB[n] = <<>> /\ PagesA[n] # <<>>) =>
                     /\ ContentsOf(d, {"removed"}) = split(PagesA[n], "\n")
                     /\ ContentsOf(d, {"common"}) = <<>>

\* the first page has no text in document 1 and text in document 2: the
\* empty line of document 1 is removed and the text of document 2 is added
C13_Witness ==
    /\ Compared
    /\ Len(PagesA) >= 1
    /\ Len(PagesB) >= 1
    /\ PagesA[1] = <<>>
    /\ PagesB[1] # <<>>
    /\ response.value.page_comparisons[1].differences
          = << [type |-> "removed", content |-> <<>>],
               [type |-> "added", content |-> PagesB[1]] >>

\* the paired pages whose two texts are equal, and those whose texts differ
EqualPages == {n \in PairedPages : PagesA[n] = PagesB[n]}
DifferingPages == {n \in PairedPages : PagesA[n] # PagesB[n]}

\* C14: every extracted page text splits into exactly one line; a paired
\* page has exactly one common entry when the two texts are equal and
\* exactly one removed entry followed by one added entry when they differ;
\* the score is 100 * e / (e + 2 * d) for e equal and d differing paired
\* pages, and 0 when there is no paired page
C14_OneLinePerPage ==
    Compared =>
        LET r == response.value
            e == Cardinality(EqualPages)
            d == Cardinality(DifferingPages)
        IN /\ \A n \in 1..Len(PagesA) : split(PagesA[n], "\n") = <<PagesA[n]>>
           /\ \A n \in 1..Len(PagesB) : split(PagesB[n], "\n") = <<PagesB[n]>>
           /\ \A n \in EqualPages :
                 r.page_comparisons[n].differences
                    = << [type |-> "common", content |-> PagesA[n]] >>
           /\ \A n \in DifferingPages :
                 r.page_comparisons[n].differences
                    = << [type |-> "removed", content |-> PagesA[n]],
                         [type |-> "added", content |-> PagesB[n]] >>
           /\ e + 2 * d > 0 =>
                 r.similarity_score[1] * (e + 2 * d)
                    = 100 * e * r.similarity_score[2]
           /\ e + 2 * d = 0 => r.similarity_score[1] = 0

\* two documents of two pages, one page equal and one differing, where a
\* page of document 1 came with a newline between two words: the score is
\* 100 * 1 / 3
C14_Witness ==
    /\ Compared
    /\ Cardinality(EqualPages) = 1
    /\ Cardinality(DifferingPages) = 1
    /\ \E n \in 1..Len(response.pdf1.pages) :
          \E k \in 2..(Len(response.pdf1.pages[n]) - 1) :
              response.pdf1.pages[n][k] = "\n"
    /\ response.value.similarity_score = <<100, 3>>

====
